---- MODULE Spec2Model ----
(***************************************************************************)
(* Model of the Go package sdrplay (iclac/sdrplay): the RSP constructor,   *)
(* the radio methods Tune, Gain and SetUp, the option setters, the band    *)
(* classifier and the exported stream callback.                            *)
(*                                                                         *)
(* Representation:                                                         *)
(*   - a *radio is a handle, an index into the sequence radios; the nil    *)
(*     pointer is NoRadio;                                                 *)
(*   - a Go error is a record [kind, code]; an interface value built from  *)
(*     a C.mir_sdr_ErrT is never the nil interface;                        *)
(*   - a double that carries MHz (FS, InitialRF, the rfMHz argument of     *)
(*     mir_sdr_Reinit) is held in thousandths of a MHz, so 102 MHz is      *)
(*     102000 and 2.048 MHz is 2048; frequencies given to Tune and band    *)
(*     are in Hz;                                                          *)
(*   - a C pointer argument is a record [null, v];                         *)
(*   - a slice is a record [base, len] into heap, so that aliasing of the  *)
(*     driver's buffers is visible.                                        *)
(***************************************************************************)
EXTENDS Integers, Sequences, FiniteSets, TLC

VARIABLES
    radios,      \* the radio objects allocated so far, by handle
    rx,          \* the package variable rx (a handle or NoRadio)
    rsp,         \* the package variable rsp, the staged features
    streaming,   \* driver side: a stream is initialised
    calls,       \* the driver calls issued by the last operation, in order
    ret,         \* the value(s) returned by the last operation
    lastOp,      \* the last operation and its receiver/argument
    nCalls,      \* number of API calls made so far
    heap,        \* sample memory: the driver's buffers and the Go copies
    batch,       \* the arguments of the last StreamCallback upcall
    propagated,  \* the two slices last handed to Connector.Propagate
    nProp,       \* number of Propagate calls made by the last upcall
    optsIn,      \* the options given to the last RSP or SetUp call
    trackIn,     \* the argument given to the last DCtrackTime call
    pc,          \* the line of RSP the application thread is at, or "idle"
    frame,       \* the arguments of the RSP call in progress
    cb,          \* the upcall in progress: its line and the connector tested
    called,      \* the connector the last upcall invoked Propagate on
    inflight,    \* per application thread, the driver call it is inside
    msg          \* what the last call of Error() on a returned error gave

vars == <<radios, rx, rsp, streaming, calls, ret, lastOp, nCalls,
          heap, batch, propagated, nProp, optsIn, trackIn,
          pc, frame, cb, called, inflight, msg>>

apiVars == <<radios, rx, rsp, streaming, calls, ret, lastOp, nCalls>>
streamVars == <<heap, batch, propagated, nProp>>
inputVars == <<optsIn, trackIn>>
threadVars == <<pc, frame, cb, called, inflight>>
auxVars == <<inputVars, threadVars, msg>>

----------------------------------------------------------------------------
(* Bounds of the model.                                                    *)

MaxCalls == 3       \* API calls (RSP, Tune, Gain, SetUp) in one run
MaxOpts == 1        \* options given to one RSP or SetUp call
BufLen == 1         \* length of the driver's sample buffers
MaxTrack == 65      \* largest argument tried for DCtrackTime
MaxCode == 11       \* largest status code the driver is let return

----------------------------------------------------------------------------
(* Values.                                                                 *)

NoRadio == 0
NoConnector == "nil"
Connectors == {"c1"}

\* mir_sdr_ErrT, in the order of the errDesc table
mir_sdr_Success == 0
mir_sdr_Fail == 1

\* mir_sdr_BandT, as returned by band
mir_sdr_BAND_AM_LO == 0
mir_sdr_BAND_AM_MID == 1
mir_sdr_BAND_AM_HI == 2
mir_sdr_BAND_VHF == 3
mir_sdr_BAND_3 == 4
mir_sdr_BAND_X == 5
mir_sdr_BAND_4_5 == 6
mir_sdr_BAND_L == 7

\* B, IFmode, OffsetMode, LOfrequency
BW200 == 200
BW1536 == 1536
IFzero == 0
IF450 == 450
None == 0
Static == 1
OneShot == 5
LOundefined == 0
LOauto == 1
LO120MHz == 2

\* the status codes the driver answers with in the model
HwCodes == {mir_sdr_Success, mir_sdr_Fail}

\* Go errors
nil == [kind |-> "nil", code |-> 0]
DeactivatedReceiverError == [kind |-> "DeactivatedReceiverError", code |-> 0]
UnpluggedConnectorError == [kind |-> "UnpluggedConnectorError", code |-> 0]
ErrT(e) == [kind |-> "mir_sdr_ErrT", code |-> e]

\* C pointer arguments
NULL == [null |-> TRUE, v |-> 0]
Ptr(x) == [null |-> FALSE, v |-> x]

----------------------------------------------------------------------------
(* features and the options.                                               *)

\* features{}: the zero value of the struct
ZeroFeatures ==
    [FS |-> 0, BW |-> 0, IFreq |-> 0, IQimbalance |-> FALSE, DCoffset |-> FALSE,
     DCmode |-> None, DCTrakTime |-> 0, LOppm |-> 0, LOmode |-> LOundefined,
     Decimate |-> FALSE, Factor |-> 0, LNA |-> FALSE, AGC |-> 0, DBFS |-> 0,
     InitialGR |-> 0, InitialRF |-> 0, Debug |-> FALSE]

\* An Option is the closure built by a setter: its name and captured values.
Opt(name, b, n, m) == [name |-> name, b |-> b, n |-> n, m |-> m]

Bandwidth(bw) == Opt("Bandwidth", FALSE, bw, 0)
\* IF(ifreq); IF is a reserved word of TLA+
IFopt(ifreq) == Opt("IF", FALSE, ifreq, 0)
FS(mhz) == Opt("FS", FALSE, mhz, 0)
IQimbalance(enabled) == Opt("IQimbalance", enabled, 0, 0)
DCoffset(enabled) == Opt("DCoffset", enabled, 0, 0)
DCmode(mode) == Opt("DCmode", FALSE, mode, 0)
\* mutant: the lower limit is tested one too low
DCtrackTimeMut(trackTime) ==
    Opt("DCtrackTime", FALSE,
        IF trackTime < 0 THEN 1 ELSE IF trackTime > 63 THEN 63 ELSE trackTime,
        0)

DCtrackTime(trackTime) ==
    Opt("DCtrackTime", FALSE,
        IF trackTime < 1 THEN 1 ELSE IF trackTime > 63 THEN 63 ELSE trackTime,
        0)
LOppm(ppm) == Opt("LOppm", FALSE, ppm, 0)
LOmode(loMode) == Opt("LOmode", FALSE, loMode, 0)
Decimate(enabled, factor) == Opt("Decimate", enabled, factor, 0)
LNA(enabled) == Opt("LNA", enabled, 0, 0)
AGC(mode, dBFS) == Opt("AGC", FALSE, mode, dBFS)
InitialGR(dB) == Opt("InitialGR", FALSE, dB, 0)
InitialRF(mhz) == Opt("InitialRF", FALSE, mhz, 0)
Debug(enabled) == Opt("Debug", enabled, 0, 0)

\* opt.apply(), on the staged features f; an Option whose apply is nil
\* (any other name) is skipped by configure.
apply(opt, f) ==
    CASE opt.name = "Bandwidth" -> [f EXCEPT !.BW = opt.n]
      [] opt.name = "IF" -> [f EXCEPT !.IFreq = opt.n]
      [] opt.name = "FS" -> [f EXCEPT !.FS = opt.n]
      [] opt.name = "IQimbalance" -> [f EXCEPT !.IQimbalance = opt.b]
      [] opt.name = "DCoffset" -> [f EXCEPT !.DCoffset = opt.b]
      [] opt.name = "DCmode" -> [f EXCEPT !.DCmode = opt.n]
      [] opt.name = "DCtrackTime" -> [f EXCEPT !.DCTrakTime = opt.n]
      [] opt.name = "LOppm" -> [f EXCEPT !.LOppm = opt.n]
      [] opt.name = "LOmode" -> [f EXCEPT !.LOmode = opt.n]
      [] opt.name = "Decimate" -> [f EXCEPT !.Decimate = opt.b, !.Factor = opt.n]
      [] opt.name = "LNA" -> [f EXCEPT !.LNA = opt.b]
      [] opt.name = "AGC" -> [f EXCEPT !.AGC = opt.n, !.DBFS = opt.m]
      [] opt.name = "InitialGR" -> [f EXCEPT !.InitialGR = opt.n]
      [] opt.name = "InitialRF" -> [f EXCEPT !.InitialRF = opt.n]
      [] opt.name = "Debug" -> [f EXCEPT !.Debug = opt.b]
      [] OTHER -> f

\* configure(opts...): the options applied left to right
RECURSIVE configure(_, _)
configure(f, opts) ==
    IF opts = <<>> THEN f
    ELSE configure(apply(Head(opts), f), Tail(opts))

\* the default options
fm102MHz ==
    <<InitialRF(102000), FS(2048), Bandwidth(BW1536), IFopt(IFzero), LOmode(LOauto)>>

RECURSIVE SeqsUpTo(_, _)
SeqsUpTo(S, n) ==
    IF n = 0 THEN {<<>>}
    ELSE LET shorter == SeqsUpTo(S, n - 1)
         IN  shorter \cup {Append(s, x) : s \in shorter, x \in S}

\* the options the application chooses from in the lifecycle model
Options == {InitialRF(50000), LNA(TRUE)}
OptLists == SeqsUpTo(Options, MaxOpts)

\* the options it chooses from in the reconfiguration model: one for every
\* field SetUp compares, one that restores a default, and two for fields
\* SetUp does not compare
SetUpOptions ==
    {InitialRF(50000), InitialRF(102000), FS(8000), Bandwidth(BW200),
     IFopt(IF450), LOmode(LO120MHz), LNA(TRUE), InitialGR(40),
     DCmode(Static), Debug(TRUE)}
SetUpOptLists == SeqsUpTo(SetUpOptions, MaxOpts)

\* the frequencies (Hz) and gain reductions the application asks for
TuneFreqs == {50000000, 70000000, 100000000, 110000000}
GainValues == {20}

----------------------------------------------------------------------------
(* Pure helpers.                                                           *)

\* mutant: the first range includes its upper limit
bandMut(f) ==
    CASE f <= 12000000 -> mir_sdr_BAND_AM_LO
      [] 12000000 <= f /\ f < 30000000 -> mir_sdr_BAND_AM_MID
      [] 30000000 <= f /\ f < 60000000 -> mir_sdr_BAND_AM_HI
      [] 60000000 <= f /\ f < 120000000 -> mir_sdr_BAND_VHF
      [] 120000000 <= f /\ f < 250000000 -> mir_sdr_BAND_3
      [] 250000000 <= f /\ f < 420000000 -> mir_sdr_BAND_X
      [] 420000000 <= f /\ f < 1000000000 -> mir_sdr_BAND_4_5
      [] 1000000000 <= f /\ f < 2000000000 -> mir_sdr_BAND_L
      [] OTHER -> -1

band(f) ==
    CASE f < 12000000 -> mir_sdr_BAND_AM_LO
      [] 12000000 <= f /\ f < 30000000 -> mir_sdr_BAND_AM_MID
      [] 30000000 <= f /\ f < 60000000 -> mir_sdr_BAND_AM_HI
      [] 60000000 <= f /\ f < 120000000 -> mir_sdr_BAND_VHF
      [] 120000000 <= f /\ f < 250000000 -> mir_sdr_BAND_3
      [] 250000000 <= f /\ f < 420000000 -> mir_sdr_BAND_X
      [] 420000000 <= f /\ f < 1000000000 -> mir_sdr_BAND_4_5
      [] 1000000000 <= f /\ f < 2000000000 -> mir_sdr_BAND_L
      [] OTHER -> -1

toError(e) == IF e = mir_sdr_Success THEN nil ELSE ErrT(e)

\* enable.C()
enableC(e) == IF e THEN 1 ELSE 0

\* OffsetMode.C()
offsetModeC(om) == om - 1

\* a driver call: the function, its arguments and the status it returned
\* (mir_sdr_Success for the calls whose status the code does not read)
Call(fn, args, res) == [fn |-> fn, args |-> args, res |-> res]

Fns(cs) == [k \in 1..Len(cs) |-> cs[k].fn]

\* what the driver stores through the gRdBsystem and samplesPerPacket
\* pointers it is given
DriverOuts == {[grsys |-> 43, spp |-> 336]}

----------------------------------------------------------------------------
(* The initial state: nothing constructed, rx = nil, rsp = features{}.     *)

NoOp == [op |-> "none", h |-> NoRadio, f |-> 0, baseband |-> NoConnector]
Op(op, h, f, baseband) == [op |-> op, h |-> h, f |-> f, baseband |-> baseband]
Ret(rcv, err) == [rcv |-> rcv, err |-> err]

Slice(base, len) == [base |-> base, len |-> len]
Samples == {-1, 7}
Buffers == [1..BufLen -> Samples]

\* the application threads that call the methods concurrently
Threads == {"t1", "t2"}

NoFrame ==
    [baseband |-> NoConnector, opts |-> <<>>, eu |-> mir_sdr_Success,
     ei |-> mir_sdr_Success, out |-> [grsys |-> 0, spp |-> 0]]
NoUpcall == [pc |-> "idle", tested |-> NoConnector]
NotCalled == [conn |-> "none", tested |-> "none", live |-> FALSE]

\* no call and no upcall is in progress
InitThreads ==
    /\ pc = "idle"
    /\ frame = NoFrame
    /\ cb = NoUpcall
    /\ called = NotCalled
    /\ inflight = [t \in Threads |-> "idle"]

Init ==
    /\ radios = <<>>
    /\ rx = NoRadio
    /\ rsp = ZeroFeatures
    /\ streaming = FALSE
    /\ calls = <<>>
    /\ ret = Ret(NoRadio, nil)
    /\ lastOp = NoOp
    /\ nCalls = 0
    /\ heap = [xi |-> [k \in 1..BufLen |-> 0], xq |-> [k \in 1..BufLen |-> 0],
               i |-> <<>>, q |-> <<>>]
    /\ batch = [grChanged |-> 0, rfChanged |-> 0, fsChanged |-> 0,
                numSample |-> 0, reset |-> 0]
    /\ propagated = [I |-> Slice("i", 0), Q |-> Slice("q", 0)]
    /\ nProp = 0
    /\ optsIn = <<>>
    /\ trackIn = 0
    /\ InitThreads
    /\ msg = ""

----------------------------------------------------------------------------
(* radio and its methods.                                                  *)

\* new(radio) with the three registers allocated
newRadio ==
    [baseband |-> NoConnector, rf |-> 0, band |-> 0, gr |-> 0, grsys |-> 0,
     spp |-> 0, useGrAltMode |-> 0, feat |-> ZeroFeatures]

\* mutant: the status goes through toError
uninitMut(e) == toError(e)

\* radio.uninit: the status of mir_sdr_StreamUninit returned as an error
\* without going through toError
uninit(e) == ErrT(e)

\* mutant: the three registers are left as the driver last wrote them
resetRegsMut(r) == [r EXCEPT !.useGrAltMode = 1]

\* the first four assignments of radio.init and of the reinit branch of SetUp
resetRegs(r) ==
    [r EXCEPT !.gr = r.feat.InitialGR, !.grsys = 0, !.spp = 0, !.useGrAltMode = 1]

\* radio.init: the driver calls it makes on r (registers already reset),
\* staged being the package variable rsp and e the status of streamInit
initCalls(r, staged, e) ==
    <<Call("mir_sdr_DebugEnable", <<enableC(r.feat.Debug)>>, mir_sdr_Success),
      Call("mir_sdr_DCoffsetIQimbalanceControl",
           <<enableC(r.feat.DCoffset), enableC(r.feat.IQimbalance)>>,
           mir_sdr_Success),
      Call("mir_sdr_DecimateControl",
           <<enableC(r.feat.Decimate), r.feat.Factor, 0>>, mir_sdr_Success),
      Call("mir_sdr_AgcControl",
           <<r.feat.AGC, r.feat.DBFS, 0, 0, 0, 0, enableC(r.feat.LNA)>>,
           mir_sdr_Success)>>
    \o (IF r.feat.DCmode /= None
        THEN <<Call("mir_sdr_SetDcMode", <<offsetModeC(staged.DCmode), 0>>,
                    mir_sdr_Success),
               Call("mir_sdr_SetDcTrackTime", <<staged.DCTrakTime>>,
                    mir_sdr_Success)>>
        ELSE <<>>)
    \o (IF r.feat.LOppm /= 0
        THEN <<Call("mir_sdr_SetPpm", <<r.feat.LOppm>>, mir_sdr_Success)>>
        ELSE <<>>)
    \o (IF r.feat.LOmode /= LOundefined
        THEN <<Call("mir_sdr_SetLoMode", <<r.feat.LOmode>>, mir_sdr_Success)>>
        ELSE <<>>)
    \o <<Call("streamInit",
              <<Ptr(r.gr), r.feat.FS, r.feat.InitialRF, r.feat.BW,
                r.feat.IFreq, enableC(r.feat.LNA), Ptr(r.grsys),
                r.useGrAltMode, Ptr(r.spp)>>, e)>>

\* the driver's stores through the pointers of a call
driverStores(r, out) == [r EXCEPT !.grsys = out.grsys, !.spp = out.spp]

----------------------------------------------------------------------------
(* RSP(baseband, opts...)                                                  *)

\* mutant: the connector is not checked
unpluggedMut(baseband) == FALSE

\* line 78: no connector given
unplugged(baseband) == baseband = NoConnector

\* mutant: the previous receiver is never torn down nor deactivated
hasPreviousMut(x) == FALSE

\* line 82: there is a previous receiver to tear down
hasPrevious(x) == x /= NoRadio

\* mutant: the teardown error is ignored
teardownFailedMut(e) == FALSE

\* line 84: the teardown error makes the construction return
teardownFailed(e) == e /= nil

\* line 89: the previous receiver is deactivated
deactivate(rs, h) == [rs EXCEPT ![h].baseband = NoConnector]

\* mutant: the defaults are applied after the caller's options
constructMut(opts) == configure(configure(ZeroFeatures, opts), fm102MHz)

\* lines 94-97: the staged features of a construction
construct(opts) == configure(configure(ZeroFeatures, fm102MHz), opts)

\* eu is the status of mir_sdr_StreamUninit, ei the one of streamInit
RSP(baseband, opts, eu, ei, out) ==
    /\ nCalls < MaxCalls
    /\ nCalls' = nCalls + 1
    /\ lastOp' = Op("RSP", rx, 0, baseband)
    /\ UNCHANGED streamVars
    /\ IF unplugged(baseband)
       THEN /\ ret' = Ret(NoRadio, UnpluggedConnectorError)
            /\ calls' = <<>>
            /\ UNCHANGED <<radios, rx, rsp, streaming>>
       ELSE IF hasPrevious(rx) /\ teardownFailed(uninit(eu))
       THEN /\ ret' = Ret(NoRadio, uninit(eu))
            /\ calls' = <<Call("mir_sdr_StreamUninit", <<>>, eu)>>
            /\ streaming' = (streaming /\ eu /= mir_sdr_Success)
            /\ UNCHANGED <<radios, rx, rsp>>
       ELSE LET torn == hasPrevious(rx)
                old == IF torn THEN deactivate(radios, rx) ELSE radios
                staged == construct(opts)
                r == resetRegs([newRadio EXCEPT !.feat = staged,
                                                !.baseband = baseband])
            IN  /\ radios' = Append(old, driverStores(r, out))
                /\ rx' = Len(radios) + 1
                /\ rsp' = staged
                /\ calls' = (IF torn
                             THEN <<Call("mir_sdr_StreamUninit", <<>>, eu)>>
                             ELSE <<>>) \o initCalls(r, staged, ei)
                /\ streaming' =
                      IF ei = mir_sdr_Success THEN TRUE
                      ELSE streaming /\ ~(torn /\ eu = mir_sdr_Success)
                /\ ret' = Ret(Len(radios) + 1, toError(ei))

----------------------------------------------------------------------------
(* Tune, Gain, SetUp                                                       *)

\* mutant: the connector is not tested
deactivatedMut(r) == FALSE

\* lines 158, 177, 189: the receiver has no connector
deactivated(r) == r.baseband = NoConnector

\* the return of a method called on a receiver without connector
deactivatedReturn ==
    /\ ret' = Ret(NoRadio, DeactivatedReceiverError)
    /\ calls' = <<>>
    /\ UNCHANGED <<radios, rx, rsp, streaming>>

\* line 163: the cheap path is taken
sameBand(nb, r) == nb = r.band

\* mutant: the new band is not recorded
setBandMut(r, nb) == r

\* line 167: the new band is recorded
setBand(r, nb) == [r EXCEPT !.band = nb]

\* line 169: the reason of the reinitialisation made by Tune
tuneReason == {"mir_sdr_CHANGE_RF_FREQ"}

\* line 170: Hz to MHz
rfMHz(frequency) == frequency \div 1000

\* line 164
setRfCall(frequency, e) == Call("mir_sdr_SetRf", <<frequency, 1, 0>>, e)

\* line 172
tuneReinitCall(frequency, e) ==
    Call("mir_sdr_Reinit",
         <<NULL, 0, rfMHz(frequency), 0, 0, 0, 0, NULL, 0, NULL, tuneReason>>, e)

Tune(h, frequency, e) ==
    /\ nCalls < MaxCalls
    /\ nCalls' = nCalls + 1
    /\ lastOp' = Op("Tune", h, frequency, NoConnector)
    /\ UNCHANGED streamVars
    /\ IF deactivated(radios[h])
       THEN deactivatedReturn
       ELSE LET nb == band(frequency)
            IN  IF sameBand(nb, radios[h])
                THEN /\ calls' = <<setRfCall(frequency, e)>>
                     /\ ret' = Ret(NoRadio, toError(e))
                     /\ UNCHANGED <<radios, rx, rsp, streaming>>
                ELSE /\ radios' = [radios EXCEPT ![h] = setBand(@, nb)]
                     /\ calls' = <<tuneReinitCall(frequency, e)>>
                     /\ ret' = Ret(NoRadio, toError(e))
                     /\ UNCHANGED <<rx, rsp, streaming>>

\* mutant: the LNA flag is not passed
gainCallMut(r, e) ==
    Call("mir_sdr_SetGrAltMode", <<Ptr(r.gr), 0, Ptr(r.grsys), 1, 0>>, e)

\* line 183
gainCall(r, e) ==
    Call("mir_sdr_SetGrAltMode",
         <<Ptr(r.gr), enableC(r.feat.LNA), Ptr(r.grsys), 1, 0>>, e)

Gain(h, reduction, e, out) ==
    /\ nCalls < MaxCalls
    /\ nCalls' = nCalls + 1
    /\ lastOp' = Op("Gain", h, reduction, NoConnector)
    /\ UNCHANGED streamVars
    /\ IF deactivated(radios[h])
       THEN deactivatedReturn
       ELSE LET r == [radios[h] EXCEPT !.gr = reduction]
            IN  /\ radios' = [radios EXCEPT ![h] = [r EXCEPT !.grsys = out.grsys]]
                /\ calls' = <<gainCall(r, e)>>
                /\ ret' = Ret(NoRadio, toError(e))
                /\ UNCHANGED <<rx, rsp, streaming>>

\* mutant: a DC mode of None is sent to the driver like any other
immediateCallsMut(staged, active) ==
    (IF staged.DCmode /= active.DCmode
     THEN <<Call("mir_sdr_SetDcMode", <<offsetModeC(staged.DCmode), 0>>,
                 mir_sdr_Success),
            Call("mir_sdr_SetDcTrackTime", <<staged.DCTrakTime>>,
                 mir_sdr_Success)>>
     ELSE <<>>)
    \o (IF staged.LOppm /= active.LOppm /\ staged.LOppm /= 0
        THEN <<Call("mir_sdr_SetPpm", <<staged.LOppm>>, mir_sdr_Success)>>
        ELSE <<>>)

\* lines 195-202: the immediate updates
immediateCalls(staged, active) ==
    (IF staged.DCmode /= active.DCmode /\ staged.DCmode /= None
     THEN <<Call("mir_sdr_SetDcMode", <<offsetModeC(staged.DCmode), 0>>,
                 mir_sdr_Success),
            Call("mir_sdr_SetDcTrackTime", <<staged.DCTrakTime>>,
                 mir_sdr_Success)>>
     ELSE <<>>)
    \o (IF staged.LOppm /= active.LOppm /\ staged.LOppm /= 0
        THEN <<Call("mir_sdr_SetPpm", <<staged.LOppm>>, mir_sdr_Success)>>
        ELSE <<>>)

\* mutant: the bandwidth is not compared
setUpReasonMut(staged, active) ==
    (IF staged.InitialGR /= active.InitialGR \/ staged.LNA /= active.LNA
     THEN {"mir_sdr_CHANGE_GR"} ELSE {})
    \cup (IF staged.FS /= active.FS THEN {"mir_sdr_CHANGE_FS_FREQ"} ELSE {})
    \cup (IF staged.InitialRF /= active.InitialRF
          THEN {"mir_sdr_CHANGE_RF_FREQ"} ELSE {})
    \cup (IF staged.IFreq /= active.IFreq
          THEN {"mir_sdr_CHANGE_IF_TYPE"} ELSE {})
    \cup (IF staged.LOmode /= active.LOmode
          THEN {"mir_sdr_CHANGE_LO_MODE"} ELSE {})

\* mutant: a change of the sample rate is reported as a change of the RF
setUpReasonSwapMut(staged, active) ==
    (IF staged.InitialGR /= active.InitialGR \/ staged.LNA /= active.LNA
     THEN {"mir_sdr_CHANGE_GR"} ELSE {})
    \cup (IF staged.FS /= active.FS THEN {"mir_sdr_CHANGE_RF_FREQ"} ELSE {})
    \cup (IF staged.InitialRF /= active.InitialRF
          THEN {"mir_sdr_CHANGE_RF_FREQ"} ELSE {})
    \cup (IF staged.BW /= active.BW THEN {"mir_sdr_CHANGE_BW_TYPE"} ELSE {})
    \cup (IF staged.IFreq /= active.IFreq
          THEN {"mir_sdr_CHANGE_IF_TYPE"} ELSE {})
    \cup (IF staged.LOmode /= active.LOmode
          THEN {"mir_sdr_CHANGE_LO_MODE"} ELSE {})

\* lines 204-228: the reason mask, as the set of its bits
setUpReason(staged, active) ==
    (IF staged.InitialGR /= active.InitialGR \/ staged.LNA /= active.LNA
     THEN {"mir_sdr_CHANGE_GR"} ELSE {})
    \cup (IF staged.FS /= active.FS THEN {"mir_sdr_CHANGE_FS_FREQ"} ELSE {})
    \cup (IF staged.InitialRF /= active.InitialRF
          THEN {"mir_sdr_CHANGE_RF_FREQ"} ELSE {})
    \cup (IF staged.BW /= active.BW THEN {"mir_sdr_CHANGE_BW_TYPE"} ELSE {})
    \cup (IF staged.IFreq /= active.IFreq
          THEN {"mir_sdr_CHANGE_IF_TYPE"} ELSE {})
    \cup (IF staged.LOmode /= active.LOmode
          THEN {"mir_sdr_CHANGE_LO_MODE"} ELSE {})

mir_sdr_CHANGE_NONE == {}

\* line 238
setUpReinitCall(r, reason, e) ==
    Call("mir_sdr_Reinit",
         <<Ptr(r.gr), r.feat.FS, r.feat.InitialRF, r.feat.BW, r.feat.IFreq,
           r.feat.LOmode, enableC(r.feat.LNA), Ptr(r.grsys), r.useGrAltMode,
           Ptr(r.spp), reason>>, e)

\* mutant: the staged features are not copied into the receiver
commitMut(r, staged) == r

\* line 230: r.feat = rsp
commit(r, staged) == [r EXCEPT !.feat = staged]

SetUp(h, opts, e, out) ==
    /\ nCalls < MaxCalls
    /\ nCalls' = nCalls + 1
    /\ lastOp' = Op("SetUp", h, 0, NoConnector)
    /\ UNCHANGED streamVars
    /\ IF deactivated(radios[h])
       THEN deactivatedReturn
       ELSE LET staged == configure(rsp, opts)
                imm == immediateCalls(staged, radios[h].feat)
                reason == setUpReason(staged, radios[h].feat)
                r1 == commit(radios[h], staged)
                r2 == resetRegs(r1)
            IN  /\ rsp' = staged
                /\ UNCHANGED <<rx, streaming>>
                /\ IF reason /= mir_sdr_CHANGE_NONE
                   THEN /\ radios' = [radios EXCEPT ![h] = driverStores(r2, out)]
                        /\ calls' = imm \o <<setUpReinitCall(r2, reason, e)>>
                        /\ ret' = Ret(NoRadio, toError(e))
                   ELSE /\ radios' = [radios EXCEPT ![h] = r1]
                        /\ calls' = imm
                        /\ ret' = Ret(NoRadio, nil)

----------------------------------------------------------------------------
(* The application: any sequence of API calls on the handles it was given. *)

Handles == 1..Len(radios)

\* the options of the call are recorded
Given(opts) == optsIn' = opts /\ UNCHANGED <<trackIn, threadVars, msg>>

DoRSP ==
    \E baseband \in Connectors \cup {NoConnector}, opts \in OptLists,
       eu \in HwCodes, ei \in HwCodes, out \in DriverOuts :
        RSP(baseband, opts, eu, ei, out) /\ Given(opts)

DoTune ==
    \E h \in Handles, f \in TuneFreqs, e \in HwCodes :
        Tune(h, f, e) /\ UNCHANGED auxVars

DoGain ==
    \E h \in Handles, g \in GainValues, e \in HwCodes, out \in DriverOuts :
        Gain(h, g, e, out) /\ UNCHANGED auxVars

DoSetUp ==
    \E h \in Handles, opts \in OptLists, e \in HwCodes, out \in DriverOuts :
        SetUp(h, opts, e, out) /\ Given(opts)

Next == DoRSP \/ DoTune \/ DoGain \/ DoSetUp

Spec == Init /\ [][Next]_vars

----------------------------------------------------------------------------
(* The reconfiguration model: a default construction followed by SetUp     *)
(* calls that draw from every kind of option.                              *)

DoRSPDefault ==
    \E baseband \in Connectors, eu \in HwCodes, ei \in HwCodes,
       out \in DriverOuts :
        RSP(baseband, <<>>, eu, ei, out) /\ Given(<<>>)

DoSetUpWide ==
    \E h \in Handles, opts \in SetUpOptLists, e \in HwCodes,
       out \in DriverOuts :
        SetUp(h, opts, e, out) /\ Given(opts)

SetUpNext == DoRSPDefault \/ DoSetUpWide

SetUpSpec == Init /\ [][SetUpNext]_vars

----------------------------------------------------------------------------
(* The methods on a deactivated receiver: the state after line 100 of a    *)
(* construction that passed line 89, a first receiver whose connector was  *)
(* cleared and a second one installed, then any sequence of method calls   *)
(* on the two.                                                             *)

built(baseband, opts, out) ==
    driverStores(resetRegs([newRadio EXCEPT !.feat = construct(opts),
                                            !.baseband = baseband]), out)

DeactInit ==
    \E c \in Connectors, o1 \in OptLists, o2 \in OptLists,
       out \in DriverOuts :
        /\ radios = Append(deactivate(<<built(c, o1, out)>>, 1),
                           built(c, o2, out))
        /\ rx = 2
        /\ rsp = construct(o2)
        /\ streaming = TRUE
        /\ calls = <<>>
        /\ ret = Ret(NoRadio, nil)
        /\ lastOp = NoOp
        /\ nCalls = 0
        /\ heap = [xi |-> [k \in 1..BufLen |-> 0],
                   xq |-> [k \in 1..BufLen |-> 0], i |-> <<>>, q |-> <<>>]
        /\ batch = [grChanged |-> 0, rfChanged |-> 0, fsChanged |-> 0,
                    numSample |-> 0, reset |-> 0]
        /\ propagated = [I |-> Slice("i", 0), Q |-> Slice("q", 0)]
        /\ nProp = 0
        /\ optsIn = <<>>
        /\ trackIn = 0
        /\ InitThreads
        /\ msg = ""

DeactNext == DoTune \/ DoGain \/ DoSetUp

DeactSpec == DeactInit /\ [][DeactNext]_vars

----------------------------------------------------------------------------
(* The construction model: constructions with option lists of every shape  *)
(* (none, one, several on different fields, several on the same field),    *)
(* and Gain calls on the receivers they return.                            *)

ConstructOptLists ==
    OptLists \cup
    {<<InitialRF(50000), InitialRF(70000)>>,
     <<InitialRF(70000), InitialRF(50000)>>,
     <<FS(8000)>>,
     <<FS(8000), FS(2048), FS(8000)>>,
     <<Bandwidth(BW200), LNA(TRUE)>>,
     <<IFopt(IF450), LOmode(LO120MHz)>>,
     <<LOmode(LOundefined)>>,
     <<Debug(TRUE), DCmode(Static), Decimate(TRUE, 4), AGC(1, -30)>>}

DoRSPWide ==
    \E baseband \in Connectors \cup {NoConnector}, opts \in ConstructOptLists,
       eu \in HwCodes, ei \in HwCodes, out \in DriverOuts :
        RSP(baseband, opts, eu, ei, out) /\ Given(opts)

ConstructNext == DoRSPWide \/ DoGain

ConstructSpec == Init /\ [][ConstructNext]_vars

----------------------------------------------------------------------------
(* The tracking-time model: a default construction followed by SetUp calls *)
(* whose one option is built by DCtrackTime from any integer in range.     *)

TrackTimes == (0 - 2)..MaxTrack

DoSetUpTrack ==
    \E h \in Handles, t \in TrackTimes, e \in HwCodes, out \in DriverOuts :
        /\ SetUp(h, <<DCtrackTime(t)>>, e, out)
        /\ optsIn' = <<DCtrackTime(t)>>
        /\ trackIn' = t
        /\ UNCHANGED <<threadVars, msg>>

TrackNext == DoRSPDefault \/ DoSetUpTrack

TrackSpec == Init /\ [][TrackNext]_vars

----------------------------------------------------------------------------
(* The band model: a default construction followed by Tune calls at, just  *)
(* below and just above every limit of a band, and at the extremes.        *)

BandLimits ==
    {12000000, 30000000, 60000000, 120000000, 250000000, 420000000,
     1000000000, 2000000000}

BandFreqs ==
    {0 - 1, 0, 2100000000}
    \cup UNION {{l - 1, l, l + 1} : l \in BandLimits}

DoTuneBand ==
    \E h \in Handles, f \in BandFreqs, e \in HwCodes :
        Tune(h, f, e) /\ UNCHANGED auxVars

BandNext == DoRSPDefault \/ DoTuneBand

BandSpec == Init /\ [][BandNext]_vars

----------------------------------------------------------------------------
(* The stream callback, called by the driver while a stream is initialised *)
(* with its two sample buffers, which it refills afterwards.               *)

Contents(hp, sl) == SubSeq(hp[sl.base], 1, sl.len)

\* line 14: the batch is dropped
dropped(b, conn) ==
    b.grChanged = 1 \/ b.fsChanged = 1 \/ b.reset = 1 \/ conn = NoConnector

\* lines 21 and 25: the driver buffer each of the two slices is built on
iSource == "xi"
qSource == "xi"

\* mutant: the slice on the driver's buffer is handed over without a copy
ownedMut(dst, src) == src

\* lines 22-23 and 26-27: the slice obtained by make and copy, in the array
\* allocated at dst
owned(dst, src) == Slice(dst, src.len)

StreamCallback(b) ==
    /\ streaming
    /\ batch' = b
    /\ lastOp' = Op("StreamCallback", rx, 0, NoConnector)
    /\ UNCHANGED <<radios, rx, rsp, streaming, calls, ret, nCalls>>
    /\ IF dropped(b, radios[rx].baseband)
       THEN /\ nProp' = 0
            /\ UNCHANGED <<heap, propagated>>
       ELSE LET is == Slice(iSource, b.numSample)
                qs == Slice(qSource, b.numSample)
            IN  /\ heap' = [heap EXCEPT !.i = Contents(heap, is),
                                        !.q = Contents(heap, qs)]
                /\ propagated' = [I |-> owned("i", is), Q |-> owned("q", qs)]
                /\ nProp' = 1

\* the driver refills its buffers
DriverWrite(bi, bq) ==
    /\ heap' = [heap EXCEPT !.xi = bi, !.xq = bq]
    /\ lastOp' = Op("DriverWrite", NoRadio, 0, NoConnector)
    /\ UNCHANGED <<radios, rx, rsp, streaming, calls, ret, nCalls,
                   batch, propagated, nProp>>

Flags == {0, 1}
Batches ==
    [grChanged : Flags, rfChanged : Flags, fsChanged : Flags,
     numSample : 0..BufLen, reset : Flags]

DoStreamCallback ==
    \E b \in Batches : StreamCallback(b) /\ UNCHANGED auxVars

DoDriverWrite ==
    \E bi \in Buffers, bq \in Buffers :
        DriverWrite(bi, bq) /\ UNCHANGED auxVars

StreamNext == DoRSPDefault \/ DoStreamCallback \/ DoDriverWrite

StreamSpec == Init /\ [][StreamNext]_vars

----------------------------------------------------------------------------
(* The interleaving model: the application thread runs RSP line by line    *)
(* while the driver's thread runs StreamCallback in two steps, the test of *)
(* line 14 with the copies, and the call of line 29, which reads           *)
(* rx.baseband again.  The driver starts an upcall only while the stream   *)
(* is initialised; one it has started may still be running when            *)
(* mir_sdr_StreamUninit returns.                                           *)

\* RSP is called: line 78, the arguments kept for the lines that follow
RSPCall(baseband, opts, eu, ei, out) ==
    /\ pc = "idle"
    /\ nCalls < MaxCalls
    /\ nCalls' = nCalls + 1
    /\ lastOp' = Op("RSP", rx, 0, baseband)
    /\ calls' = <<>>
    /\ optsIn' = opts
    /\ IF unplugged(baseband)
       THEN /\ ret' = Ret(NoRadio, UnpluggedConnectorError)
            /\ UNCHANGED <<pc, frame>>
       ELSE /\ pc' = "L82"
            /\ frame' = [baseband |-> baseband, opts |-> opts, eu |-> eu,
                         ei |-> ei, out |-> out]
            /\ UNCHANGED ret
    /\ UNCHANGED <<radios, rx, rsp, streaming, streamVars, trackIn, cb,
                   called, inflight, msg>>

\* the next line of the RSP call in progress
RSPStep ==
    /\ pc /= "idle"
    /\ UNCHANGED <<lastOp, nCalls, streamVars, inputVars, frame, cb, called,
                   inflight, msg>>
    /\ CASE pc = "L82" ->
              IF hasPrevious(rx)
              THEN /\ calls' = <<Call("mir_sdr_StreamUninit", <<>>, frame.eu)>>
                   /\ streaming' = (streaming /\ frame.eu /= mir_sdr_Success)
                   /\ IF teardownFailed(uninit(frame.eu))
                      THEN ret' = Ret(NoRadio, uninit(frame.eu)) /\ pc' = "idle"
                      ELSE pc' = "L89" /\ UNCHANGED ret
                   /\ UNCHANGED <<radios, rx, rsp>>
              ELSE /\ pc' = "L92"
                   /\ UNCHANGED <<radios, rx, rsp, streaming, calls, ret>>
         [] pc = "L89" ->
              /\ radios' = deactivate(radios, rx)
              /\ pc' = "L92"
              /\ UNCHANGED <<rx, rsp, streaming, calls, ret>>
         [] pc = "L92" ->
              /\ radios' = Append(radios, newRadio)
              /\ rx' = Len(radios) + 1
              /\ pc' = "L94"
              /\ UNCHANGED <<rsp, streaming, calls, ret>>
         [] pc = "L94" ->
              /\ rsp' = construct(frame.opts)
              /\ radios' = [radios EXCEPT ![rx].feat = construct(frame.opts)]
              /\ pc' = "L100"
              /\ UNCHANGED <<rx, streaming, calls, ret>>
         [] pc = "L100" ->
              /\ radios' = [radios EXCEPT ![rx].baseband = frame.baseband]
              /\ pc' = "L102"
              /\ UNCHANGED <<rx, rsp, streaming, calls, ret>>
         [] pc = "L102" ->
              LET r == resetRegs(radios[rx])
              IN  /\ radios' = [radios EXCEPT ![rx] = driverStores(r, frame.out)]
                  /\ calls' = calls \o initCalls(r, rsp, frame.ei)
                  /\ streaming' = (frame.ei = mir_sdr_Success \/ streaming)
                  /\ ret' = Ret(rx, toError(frame.ei))
                  /\ pc' = "idle"
                  /\ UNCHANGED <<rx, rsp>>

\* lines 14-27 of an upcall: the test, and the copies when it passes
CbCheck(b) ==
    /\ streaming
    /\ cb.pc = "idle"
    /\ batch' = b
    /\ called' = NotCalled
    /\ IF dropped(b, radios[rx].baseband)
       THEN /\ nProp' = 0
            /\ UNCHANGED <<heap, cb>>
       ELSE LET is == Slice(iSource, b.numSample)
                qs == Slice(qSource, b.numSample)
            IN  /\ heap' = [heap EXCEPT !.i = Contents(heap, is),
                                        !.q = Contents(heap, qs)]
                /\ cb' = [pc |-> "L29", tested |-> radios[rx].baseband]
                /\ UNCHANGED nProp
    /\ UNCHANGED <<apiVars, propagated, inputVars, pc, frame, inflight, msg>>

\* line 29 of the upcall: Propagate is invoked on the connector read now
\* from rx.baseband (on nil, the call panics)
CbCall ==
    /\ cb.pc = "L29"
    /\ cb' = NoUpcall
    /\ LET conn == radios[rx].baseband
       IN  /\ called' = [conn |-> conn, tested |-> cb.tested,
                         live |-> streaming]
           /\ IF conn = NoConnector
              THEN nProp' = 0 /\ UNCHANGED propagated
              ELSE /\ nProp' = 1
                   /\ propagated' =
                         [I |-> owned("i", Slice(iSource, batch.numSample)),
                          Q |-> owned("q", Slice(qSource, batch.numSample))]
    /\ UNCHANGED <<apiVars, heap, batch, inputVars, pc, frame, inflight, msg>>

DoRSPCall ==
    \E baseband \in Connectors \cup {NoConnector},
       opts \in {<<>>, <<LNA(TRUE)>>},
       eu \in HwCodes, ei \in HwCodes, out \in DriverOuts :
        RSPCall(baseband, opts, eu, ei, out)

\* the batches of the interleaving model: the clean ones and those flagged
\* as a reset
ConcBatches ==
    {b \in Batches : b.grChanged = 0 /\ b.rfChanged = 0 /\ b.fsChanged = 0}

DoCbCheck == \E b \in ConcBatches : CbCheck(b)

ConcNext == DoRSPCall \/ RSPStep \/ DoCbCheck \/ CbCall

ConcSpec == Init /\ [][ConcNext]_vars

----------------------------------------------------------------------------
(* The threads model: two application threads call the methods with        *)
(* nothing to order them (neither the package nor radio holds a lock).  A  *)
(* thread that has passed the connector check and entered a driver call    *)
(* stays inside it until the call returns.                                 *)

\* the driver call a method that issued cs is inside
Kind(cs) ==
    LET has(fn) == \E k \in 1..Len(cs) : cs[k].fn = fn
    IN  IF has("mir_sdr_Reinit") THEN "reinit"
        ELSE IF has("mir_sdr_StreamUninit") THEN "teardown"
        ELSE IF has("mir_sdr_SetRf") THEN "tune"
        ELSE IF has("mir_sdr_SetGrAltMode") THEN "gain"
        ELSE IF cs /= <<>> THEN "other"
        ELSE "idle"

\* thread t makes the call
Enter(t) ==
    /\ inflight[t] = "idle"
    /\ inflight' = [inflight EXCEPT ![t] = Kind(calls')]
    /\ UNCHANGED <<trackIn, pc, frame, cb, called, msg>>

BeginRSP ==
    \E t \in Threads, baseband \in Connectors, eu \in HwCodes,
       ei \in HwCodes, out \in DriverOuts :
        RSP(baseband, <<>>, eu, ei, out) /\ optsIn' = <<>> /\ Enter(t)

BeginTune ==
    \E t \in Threads, h \in Handles, f \in TuneFreqs, e \in HwCodes :
        Tune(h, f, e) /\ UNCHANGED optsIn /\ Enter(t)

BeginGain ==
    \E t \in Threads, h \in Handles, g \in GainValues, e \in HwCodes,
       out \in DriverOuts :
        Gain(h, g, e, out) /\ UNCHANGED optsIn /\ Enter(t)

BeginSetUp ==
    \E t \in Threads, h \in Handles, opts \in OptLists, e \in HwCodes,
       out \in DriverOuts :
        SetUp(h, opts, e, out) /\ optsIn' = opts /\ Enter(t)

\* the driver call of thread t returns
Return ==
    \E t \in Threads :
        /\ inflight[t] /= "idle"
        /\ inflight' = [inflight EXCEPT ![t] = "idle"]
        /\ UNCHANGED <<apiVars, streamVars, inputVars, pc, frame, cb, called,
                       msg>>

ThreadNext == BeginRSP \/ BeginTune \/ BeginGain \/ BeginSetUp \/ Return

ThreadSpec == Init /\ [][ThreadNext]_vars

----------------------------------------------------------------------------
(* The immediate-update model: a default construction followed by SetUp    *)
(* calls on the DC mode, the tracking time and the LO correction, alone    *)
(* and together with a field that needs a reinitialisation.                *)

ImmOptions ==
    {DCmode(Static), DCmode(None), DCmode(OneShot), DCtrackTime(30),
     LOppm(5), LOppm(0), Bandwidth(BW200)}

ImmOptLists ==
    SeqsUpTo(ImmOptions, MaxOpts) \cup
    {<<DCmode(Static), Bandwidth(BW200)>>,
     <<LOppm(5), Bandwidth(BW1536)>>,
     <<DCmode(OneShot), DCtrackTime(30), LOppm(5)>>,
     <<DCmode(OneShot), LOppm(5), Bandwidth(BW200)>>}

DoSetUpImm ==
    \E h \in Handles, opts \in ImmOptLists, e \in HwCodes,
       out \in DriverOuts :
        SetUp(h, opts, e, out) /\ Given(opts)

ImmNext == DoRSPDefault \/ DoSetUpImm

ImmSpec == Init /\ [][ImmNext]_vars

----------------------------------------------------------------------------
(* The status model: a default construction, Gain calls to which the       *)
(* driver answers any status code of 0..MaxCode, and the application       *)
(* reading the message of the error it was returned.                       *)

\* lines 318-330: the descriptions, at index code + 1
errDesc ==
    <<"Success", "Fail", "Invalid Param", "Out of Range", "Gain Update error",
      "RF Update error", "FS Update error", "HW error", "Aliasing error",
      "Already Initialised", "Not Initialised">>

\* the run-time panic of an array index out of range
IndexOutOfRange == "panic: index out of range"

\* lines 332-334: errDesc[e]
Error(e) ==
    IF e + 1 \in 1..Len(errDesc) THEN errDesc[e + 1] ELSE IndexOutOfRange

StatusCodes == 0..MaxCode

DoGainStatus ==
    \E h \in Handles, g \in GainValues, e \in StatusCodes,
       out \in DriverOuts :
        Gain(h, g, e, out) /\ UNCHANGED auxVars

\* the application calls Error() on the error the last call returned
ReadError ==
    /\ ret.err.kind = "mir_sdr_ErrT"
    /\ lastOp.op /= "Error"
    /\ msg' = Error(ret.err.code)
    /\ lastOp' = Op("Error", lastOp.h, ret.err.code, NoConnector)
    /\ UNCHANGED <<radios, rx, rsp, streaming, calls, ret, nCalls,
                   streamVars, inputVars, threadVars>>

StatusNext == DoRSPDefault \/ DoGainStatus \/ ReadError

StatusSpec == Init /\ [][StatusNext]_vars

----------------------------------------------------------------------------
(* The quiet-update model: a default construction followed by SetUp calls  *)
(* on the fields SetUp compares with nothing, and on two it does compare.  *)

QuietOptions ==
    {IQimbalance(TRUE), DCoffset(TRUE), DCtrackTime(30), Decimate(TRUE, 4),
     AGC(1, 0 - 30), Debug(TRUE), DCmode(Static), Bandwidth(BW200)}

QuietOptLists == SeqsUpTo(QuietOptions, MaxOpts)

DoSetUpQuiet ==
    \E h \in Handles, opts \in QuietOptLists, e \in HwCodes,
       out \in DriverOuts :
        SetUp(h, opts, e, out) /\ Given(opts)

QuietNext == DoRSPDefault \/ DoSetUpQuiet

QuietSpec == Init /\ [][QuietNext]_vars

----------------------------------------------------------------------------
(* Properties.                                                             *)

\* the step just taken is a call of op (lastOp is set by every action and
\* nCalls counts the API calls)
ApiStep(op) == lastOp'.op = op /\ nCalls' = nCalls + 1

HasFn(cs, fn) == \E k \in 1..Len(cs) : cs[k].fn = fn

\* a double holding MHz, in Hz
Hz(mhz) == mhz * 1000

\* C1: after a successful construction, a second construction whose stream
\* teardown succeeds deactivates the first receiver (its connector is
\* cleared, so that its methods return DeactivatedReceiverError) and
\* installs and returns a new receiver.
C1_SecondConstructionDeactivatesFirst ==
    (/\ lastOp.op = "RSP"
     /\ lastOp.baseband /= NoConnector
     /\ lastOp.h /= NoRadio
     /\ HasFn(calls, "mir_sdr_StreamUninit")
     /\ calls[1].res = mir_sdr_Success)
    => /\ radios[lastOp.h].baseband = NoConnector
       /\ rx /= lastOp.h
       /\ ret.rcv = rx

\* a receiver is active: it holds a connector and the hardware stream is live
Active(h) == radios[h].baseband /= NoConnector /\ streaming

\* C2: in every reachable state at most one receiver is active.
C2_AtMostOneActive == Cardinality({h \in Handles : Active(h)}) <= 1

\* C2 witness: a second construction call was made, some hardware step
\* failed, and a receiver is active.
C2_Witness ==
    /\ lastOp.op = "RSP"
    /\ lastOp.h /= NoRadio
    /\ ret.err.kind = "mir_sdr_ErrT"
    /\ \E h \in Handles : Active(h)

\* C3: a construction without connector returns UnpluggedConnectorError and
\* no receiver, makes no driver call and changes neither the installed
\* receiver, nor any receiver's connector or features, nor the staged
\* features.
C3_UnpluggedChangesNothing ==
    [][(ApiStep("RSP") /\ lastOp'.baseband = NoConnector)
       => /\ ret' = Ret(NoRadio, UnpluggedConnectorError)
          /\ calls' = <<>>
          /\ UNCHANGED <<radios, rx, rsp, streaming>>]_vars

\* C3 witness: a construction without connector was made while a receiver
\* was installed.
C3_Witness ==
    /\ lastOp.op = "RSP"
    /\ lastOp.baseband = NoConnector
    /\ rx /= NoRadio
    /\ ret.err = UnpluggedConnectorError

\* C4: when mir_sdr_StreamUninit fails during a construction, the
\* construction returns that failure and no receiver, streamInit is not
\* called, and rx, the staged features and every receiver (connector,
\* features) are unchanged.
C4_TeardownFailureAborts ==
    [][(/\ ApiStep("RSP")
        /\ HasFn(calls', "mir_sdr_StreamUninit")
        /\ calls'[1].res /= mir_sdr_Success)
       => /\ ret' = Ret(NoRadio, ErrT(calls'[1].res))
          /\ ~HasFn(calls', "streamInit")
          /\ UNCHANGED <<radios, rx, rsp>>]_vars

\* C4 witness: a construction whose teardown failed.
C4_Witness ==
    /\ lastOp.op = "RSP"
    /\ HasFn(calls, "mir_sdr_StreamUninit")
    /\ calls[1].res = mir_sdr_Fail
    /\ ret.err = ErrT(mir_sdr_Fail)
    /\ radios[rx].baseband /= NoConnector

\* C5: on a receiver constructed with an initial RF in band B, the first
\* Tune to a frequency of B, and every Tune within B that follows a cheap
\* Tune within B, issues the set-center-frequency call and no
\* reinitialisation.
C5_SameBandTuneIsCheap ==
    [][(/\ ApiStep("Tune")
        /\ lastOp'.h \in Handles
        /\ radios[lastOp'.h].baseband /= NoConnector
        /\ band(lastOp'.f) = band(Hz(radios[lastOp'.h].feat.InitialRF))
        /\ \/ lastOp.op = "RSP" /\ ret.rcv = lastOp'.h
           \/ /\ lastOp.op = "Tune"
              /\ lastOp.h = lastOp'.h
              /\ band(lastOp.f) = band(lastOp'.f)
              /\ Fns(calls) = <<"mir_sdr_SetRf">>)
       => Fns(calls') = <<"mir_sdr_SetRf">>]_vars

\* C6: Tune on a receiver that holds a connector issues exactly one driver
\* call: mir_sdr_SetRf(frequency, 1, 0), the receiver unchanged, when
\* band(frequency) is the receiver's band; otherwise mir_sdr_Reinit with
\* the reason mir_sdr_CHANGE_RF_FREQ alone and the RF in MHz as its only
\* parameter, the receiver's band becoming band(frequency) and nothing else
\* of it changing.
C6_TuneOneCall ==
    [][(/\ ApiStep("Tune")
        /\ radios[lastOp'.h].baseband /= NoConnector)
       => LET h == lastOp'.h
              f == lastOp'.f
          IN  /\ Len(calls') = 1
              /\ IF band(f) = radios[h].band
                 THEN /\ calls'[1].fn = "mir_sdr_SetRf"
                      /\ calls'[1].args = <<f, 1, 0>>
                      /\ radios' = radios
                 ELSE /\ calls'[1].fn = "mir_sdr_Reinit"
                      /\ calls'[1].args =
                            <<NULL, 0, f \div 1000, 0, 0, 0, 0, NULL, 0, NULL,
                              {"mir_sdr_CHANGE_RF_FREQ"}>>
                      /\ radios'[h].band = band(f)
                      /\ radios' = [radios EXCEPT ![h].band = band(f)]]_vars

\* C6 witness: a Tune took the cheap path in a band that an earlier Tune
\* had recorded.
C6_Witness ==
    /\ lastOp.op = "Tune"
    /\ Fns(calls) = <<"mir_sdr_SetRf">>
    /\ radios[lastOp.h].band = mir_sdr_BAND_AM_HI

\* a batch is flagged
Flagged(b) ==
    b.grChanged = 1 \/ b.rfChanged = 1 \/ b.fsChanged = 1 \/ b.reset = 1

\* C7: a batch flagged with gain-changed, RF-changed, sample-rate-changed
\* or reset is never propagated to the connector.
C7_FlaggedBatchDropped ==
    (lastOp.op = "StreamCallback" /\ Flagged(batch)) => nProp = 0

\* C8: for a clean batch delivered while the receiver has a connector, the
\* Q array handed to the connector holds the first numSample values of the
\* driver's Q buffer.
C8_QFromDriverQ ==
    (/\ lastOp.op = "StreamCallback"
     /\ ~Flagged(batch)
     /\ radios[rx].baseband /= NoConnector)
    => /\ nProp = 1
       /\ Contents(heap, propagated.Q) = SubSeq(heap.xq, 1, batch.numSample)

\* C9: for a clean batch arriving while the receiver has a connector,
\* Propagate is called exactly once within the upcall, with two arrays of
\* length numSample, the I array holding the driver's I buffer as it was at
\* the call; a later overwrite of the driver's buffers does not change the
\* arrays the connector received.
C9_CleanBatchCopied ==
    [][/\ (/\ lastOp'.op = "StreamCallback"
           /\ ~Flagged(batch')
           /\ radios[rx].baseband /= NoConnector)
          => /\ nProp' = 1
             /\ propagated'.I.len = batch'.numSample
             /\ propagated'.Q.len = batch'.numSample
             /\ Len(Contents(heap', propagated'.I)) = batch'.numSample
             /\ Len(Contents(heap', propagated'.Q)) = batch'.numSample
             /\ Contents(heap', propagated'.I)
                   = SubSeq(heap.xi, 1, batch'.numSample)
       /\ lastOp'.op = "DriverWrite"
          => /\ Contents(heap', propagated.I) = Contents(heap, propagated.I)
             /\ Contents(heap', propagated.Q) = Contents(heap, propagated.Q)
             /\ propagated' = propagated]_vars

\* C9 witness: the driver has overwritten its buffers after a clean batch
\* of BufLen samples was propagated, and the connector's I array differs
\* from the driver's buffer.
C9_Witness ==
    /\ lastOp.op = "DriverWrite"
    /\ nProp = 1
    /\ propagated.I.len = BufLen
    /\ Contents(heap, propagated.I) /= heap.xi

\* the fields whose change makes SetUp reinitialise
ReinitFields ==
    {"InitialGR", "LNA", "FS", "InitialRF", "BW", "IFreq", "LOmode"}

\* C10: SetUp on a receiver that holds a connector issues mir_sdr_Reinit if
\* and only if the staged features differ from the receiver's in one of
\* InitialGR, LNA, FS, InitialRF, BW, IF, LOmode; with staged features
\* equal to the receiver's it issues no reinitialisation and returns nil.
C10_ReinitIffFieldDiffers ==
    [][(/\ ApiStep("SetUp")
        /\ radios[lastOp'.h].baseband /= NoConnector)
       => LET active == radios[lastOp'.h].feat
          IN  /\ HasFn(calls', "mir_sdr_Reinit")
                    <=> (\E fld \in ReinitFields : rsp'[fld] /= active[fld])
              /\ rsp' = active
                    => ~HasFn(calls', "mir_sdr_Reinit") /\ ret'.err = nil]_vars

\* C10 witness: a SetUp that changed only the bandwidth has reinitialised.
C10_Witness ==
    /\ lastOp.op = "SetUp"
    /\ HasFn(calls, "mir_sdr_Reinit")
    /\ calls[Len(calls)].args[11] = {"mir_sdr_CHANGE_BW_TYPE"}

\* the reason bit of each of the six categories and the fields it reports
ReasonBits ==
    {<<"mir_sdr_CHANGE_GR", {"InitialGR", "LNA"}>>,
     <<"mir_sdr_CHANGE_FS_FREQ", {"FS"}>>,
     <<"mir_sdr_CHANGE_RF_FREQ", {"InitialRF"}>>,
     <<"mir_sdr_CHANGE_BW_TYPE", {"BW"}>>,
     <<"mir_sdr_CHANGE_IF_TYPE", {"IFreq"}>>,
     <<"mir_sdr_CHANGE_LO_MODE", {"LOmode"}>>}

\* C11: the reason mask SetUp passes to mir_sdr_Reinit holds the bit of a
\* category exactly when one of the category's staged fields differs from
\* the receiver's, and holds no other bit; with only InitialRF changed it
\* is the frequency-change bit alone.
C11_ReasonMaskPerCategory ==
    [][(/\ ApiStep("SetUp")
        /\ radios[lastOp'.h].baseband /= NoConnector
        /\ HasFn(calls', "mir_sdr_Reinit"))
       => LET active == radios[lastOp'.h].feat
              mask == calls'[Len(calls')].args[11]
          IN  /\ \A rb \in ReasonBits :
                    rb[1] \in mask
                       <=> (\E fld \in rb[2] : rsp'[fld] /= active[fld])
              /\ mask \subseteq {rb[1] : rb \in ReasonBits}
              /\ (\A fld \in ReinitFields \ {"InitialRF"} :
                     rsp'[fld] = active[fld])
                    => mask = {"mir_sdr_CHANGE_RF_FREQ"}]_vars

\* C11 witness: a SetUp that changed only InitialRF has reinitialised with
\* the frequency-change bit alone.
C11_Witness ==
    /\ lastOp.op = "SetUp"
    /\ HasFn(calls, "mir_sdr_Reinit")
    /\ calls[Len(calls)].args[11] = {"mir_sdr_CHANGE_RF_FREQ"}
    /\ rsp.InitialRF = 50000

\* C12: Tune, Gain and SetUp called on a receiver whose connector has been
\* cleared return DeactivatedReceiverError, make no driver call and change
\* neither the staged features (SetUp does not apply its options), nor any
\* receiver's features, band or registers, nor the installed receiver.
C12_DeactivatedChangesNothing ==
    [][(/\ \E op \in {"Tune", "Gain", "SetUp"} : ApiStep(op)
        /\ radios[lastOp'.h].baseband = NoConnector)
       => /\ ret' = Ret(NoRadio, DeactivatedReceiverError)
          /\ calls' = <<>>
          /\ UNCHANGED <<radios, rx, rsp, streaming>>]_vars

\* C12 witness: a SetUp with an option was refused on a receiver without
\* connector while another receiver is installed.
C12_Witness ==
    /\ lastOp.op = "SetUp"
    /\ radios[lastOp.h].baseband = NoConnector
    /\ optsIn /= <<>>
    /\ ret.err = DeactivatedReceiverError
    /\ rx /= lastOp.h

\* the position of the last option called name in opts, 0 when there is none
LastOf(opts, name) ==
    LET ks == {k \in 1..Len(opts) : opts[k].name = name}
    IN  IF ks = {} THEN 0 ELSE CHOOSE k \in ks : \A j \in ks : j <= k

\* the value field fld of the last option called name, or dflt
Chosen(opts, name, fld, dflt) ==
    IF LastOf(opts, name) = 0 THEN dflt ELSE opts[LastOf(opts, name)][fld]

\* the all-zero features with the five defaults of the FM preset
DefaultFeatures ==
    [ZeroFeatures EXCEPT !.InitialRF = 102000, !.FS = 2048, !.BW = BW1536,
                         !.IFreq = IFzero, !.LOmode = LOauto]

\* the features a construction with opts is to commit: field by field, the
\* value of the last option on the field, or else the default
Committed(opts) ==
    LET d == DefaultFeatures
    IN  [FS |-> Chosen(opts, "FS", "n", d.FS),
         BW |-> Chosen(opts, "Bandwidth", "n", d.BW),
         IFreq |-> Chosen(opts, "IF", "n", d.IFreq),
         IQimbalance |-> Chosen(opts, "IQimbalance", "b", d.IQimbalance),
         DCoffset |-> Chosen(opts, "DCoffset", "b", d.DCoffset),
         DCmode |-> Chosen(opts, "DCmode", "n", d.DCmode),
         DCTrakTime |-> Chosen(opts, "DCtrackTime", "n", d.DCTrakTime),
         LOppm |-> Chosen(opts, "LOppm", "n", d.LOppm),
         LOmode |-> Chosen(opts, "LOmode", "n", d.LOmode),
         Decimate |-> Chosen(opts, "Decimate", "b", d.Decimate),
         Factor |-> Chosen(opts, "Decimate", "n", d.Factor),
         LNA |-> Chosen(opts, "LNA", "b", d.LNA),
         AGC |-> Chosen(opts, "AGC", "n", d.AGC),
         DBFS |-> Chosen(opts, "AGC", "m", d.DBFS),
         InitialGR |-> Chosen(opts, "InitialGR", "n", d.InitialGR),
         InitialRF |-> Chosen(opts, "InitialRF", "n", d.InitialRF),
         Debug |-> Chosen(opts, "Debug", "b", d.Debug)]

\* C13: the features a construction commits, to the new receiver and to
\* the staged features, are the all-zero features overridden by the five
\* defaults (RF 102 MHz, FS 2.048 MHz, BW 1.536 MHz, IF zero, LO auto) and
\* then by the caller's options, the last option on a field winning; they
\* depend on nothing an earlier call left behind, and without options they
\* are exactly the defaults.
C13_ConstructionCommitsDefaultsThenOptions ==
    [][(ApiStep("RSP") /\ ret'.rcv /= NoRadio)
       => /\ radios'[ret'.rcv].feat = Committed(optsIn')
          /\ rsp' = Committed(optsIn')
          /\ optsIn' = <<>> => radios'[ret'.rcv].feat = DefaultFeatures]_vars

\* C13 witness: a construction given two options on the RF committed the
\* second one and kept the other defaults.
C13_Witness ==
    /\ lastOp.op = "RSP"
    /\ ret.rcv /= NoRadio
    /\ optsIn = <<InitialRF(50000), InitialRF(70000)>>
    /\ radios[ret.rcv].feat.InitialRF = 70000
    /\ radios[ret.rcv].feat.FS = 2048

\* C14: Gain on a receiver that holds a connector writes the reduction to
\* the gain register and makes exactly one driver call, the alternate-mode
\* gain call carrying that register and the LNA flag of the receiver's
\* features; it never reinitialises, and it leaves the receiver's features
\* and band and the staged features unchanged.
C14_GainOneAltModeCall ==
    [][(/\ ApiStep("Gain")
        /\ radios[lastOp'.h].baseband /= NoConnector)
       => LET h == lastOp'.h
          IN  /\ radios'[h].gr = lastOp'.f
              /\ Len(calls') = 1
              /\ calls'[1].fn = "mir_sdr_SetGrAltMode"
              /\ calls'[1].args[1] = Ptr(lastOp'.f)
              /\ calls'[1].args[2] = (IF radios[h].feat.LNA THEN 1 ELSE 0)
              /\ ~HasFn(calls', "mir_sdr_Reinit")
              /\ radios'[h].feat = radios[h].feat
              /\ radios'[h].band = radios[h].band
              /\ UNCHANGED <<rsp, rx>>]_vars

\* C14 witness: a Gain on a receiver built with the LNA on has made its
\* one call with the LNA flag set.
C14_Witness ==
    /\ lastOp.op = "Gain"
    /\ radios[lastOp.h].baseband /= NoConnector
    /\ radios[lastOp.h].feat.LNA
    /\ radios[lastOp.h].gr = 20
    /\ Len(calls) = 1
    /\ calls[1].args[2] = 1

\* C15: the option built by DCtrackTime from any integer holds, from the
\* moment it is built, that integer brought into 1..63 (1 below the range,
\* 63 above it, the integer itself inside), and applying it stores that
\* value, always within 1..63, as the staged tracking time.
C15_TrackTimeClamped ==
    [][(/\ ApiStep("SetUp")
        /\ radios[lastOp'.h].baseband /= NoConnector
        /\ Len(optsIn') = 1
        /\ optsIn'[1].name = "DCtrackTime")
       => /\ optsIn'[1].n \in 1..63
          /\ rsp'.DCTrakTime = optsIn'[1].n
          /\ trackIn' < 1 => rsp'.DCTrakTime = 1
          /\ trackIn' > 63 => rsp'.DCTrakTime = 63
          /\ trackIn' \in 1..63 => rsp'.DCTrakTime = trackIn']_vars

\* C15 witness: a tracking time above the range was given and 63 is staged.
C15_Witness ==
    /\ lastOp.op = "SetUp"
    /\ trackIn = 65
    /\ rsp.DCTrakTime = 63

\* the eight bands from the lowest up, and the lower limits of the upper
\* seven
BandOrder ==
    <<mir_sdr_BAND_AM_LO, mir_sdr_BAND_AM_MID, mir_sdr_BAND_AM_HI,
      mir_sdr_BAND_VHF, mir_sdr_BAND_3, mir_sdr_BAND_X, mir_sdr_BAND_4_5,
      mir_sdr_BAND_L>>
LowerLimits ==
    <<12000000, 30000000, 60000000, 120000000, 250000000, 420000000,
      1000000000>>

\* the band of f by half-open ranges: the band whose lower limit is the
\* highest one not above f, the lowest band below every limit, and the
\* out-of-range marker from 2000 MHz on
BandOf(f) ==
    IF f >= 2000000000 THEN -1
    ELSE BandOrder[1 + Cardinality({k \in 1..7 : LowerLimits[k] <= f})]

\* C16: band is total and classifies a frequency by half-open ranges
\* (lower limit included, upper excluded): the lowest band below 12 MHz,
\* then the bands that start at 12, 30, 60, 120, 250, 420 and 1000 MHz,
\* and the out-of-range marker from 2000 MHz on; the eight bands are
\* pairwise distinct and distinct from the marker.
C16_BandByHalfOpenRanges ==
    [][(/\ ApiStep("Tune")
        /\ radios[lastOp'.h].baseband /= NoConnector)
       => /\ radios'[lastOp'.h].band = BandOf(lastOp'.f)
          /\ band(lastOp'.f) = BandOf(lastOp'.f)
          /\ Cardinality({BandOrder[k] : k \in 1..8} \cup {-1}) = 9]_vars

\* C16 witness: a Tune to exactly 2000 MHz has recorded the out-of-range
\* marker.
C16_Witness ==
    /\ lastOp.op = "Tune"
    /\ lastOp.f = 2000000000
    /\ radios[lastOp.h].baseband /= NoConnector
    /\ radios[lastOp.h].band = -1

\* C17: a SetUp whose reinitialisation fails leaves the receiver's features
\* as they were before the call; the staged features become the receiver's
\* only when the reinitialisation succeeds or none is needed.
C17_FailedReinitKeepsActive ==
    [][(/\ ApiStep("SetUp")
        /\ radios[lastOp'.h].baseband /= NoConnector)
       => LET h == lastOp'.h
              failed == /\ HasFn(calls', "mir_sdr_Reinit")
                        /\ calls'[Len(calls')].res /= mir_sdr_Success
          IN  /\ failed => radios'[h].feat = radios[h].feat
              /\ ~failed => radios'[h].feat = rsp']_vars

Exclusive == {"reinit", "teardown", "tune", "gain"}

\* C19: a reinitialisation in progress excludes any concurrent Tune or Gain
\* and the deactivation path: no two threads are at the same time between
\* the connector check and the return of one of these driver calls.
C19_ReinitExcludesOthers ==
    Cardinality({t \in Threads : inflight[t] \in Exclusive}) <= 1

\* C20: SetUp calls mir_sdr_SetDcMode and then mir_sdr_SetDcTrackTime, with
\* the staged mode and tracking time, exactly when the staged DC mode
\* differs from the receiver's and is not None; it calls mir_sdr_SetPpm
\* with the staged correction exactly when that differs from the
\* receiver's and is not zero; these calls come before any
\* reinitialisation, and a change of these fields alone causes none.
C20_ImmediateUpdates ==
    [][(/\ ApiStep("SetUp")
        /\ radios[lastOp'.h].baseband /= NoConnector)
       => LET active == radios[lastOp'.h].feat
              dc == rsp'.DCmode /= active.DCmode /\ rsp'.DCmode /= None
              ppm == rsp'.LOppm /= active.LOppm /\ rsp'.LOppm /= 0
              re == \E fld \in ReinitFields : rsp'[fld] /= active[fld]
              nDc == IF dc THEN 2 ELSE 0
          IN  /\ Fns(calls') =
                    (IF dc THEN <<"mir_sdr_SetDcMode", "mir_sdr_SetDcTrackTime">>
                     ELSE <<>>)
                    \o (IF ppm THEN <<"mir_sdr_SetPpm">> ELSE <<>>)
                    \o (IF re THEN <<"mir_sdr_Reinit">> ELSE <<>>)
              /\ dc => /\ calls'[1].args = <<rsp'.DCmode - 1, 0>>
                       /\ calls'[2].args = <<rsp'.DCTrakTime>>
              /\ ppm => calls'[nDc + 1].args = <<rsp'.LOppm>>]_vars

\* C20 witness: a SetUp that changed the DC mode, the LO correction and the
\* bandwidth has made the three immediate calls and then reinitialised.
C20_Witness ==
    /\ lastOp.op = "SetUp"
    /\ Fns(calls) = <<"mir_sdr_SetDcMode", "mir_sdr_SetDcTrackTime",
                      "mir_sdr_SetPpm", "mir_sdr_Reinit">>
    /\ rsp.DCmode = OneShot

\* C21: when the reason mask of a SetUp is not empty, the gain-reduction
\* register holds the staged initial gain reduction and the system-gain
\* and samples-per-packet registers hold 0 when the driver is called, and
\* exactly one mir_sdr_Reinit is issued, after any other call, carrying
\* the three registers, the whole of the staged sample rate, RF,
\* bandwidth, IF, LO mode and LNA flag, changed or not, and the mask.
C21_ReinitCarriesCompleteStaged ==
    [][(/\ ApiStep("SetUp")
        /\ radios[lastOp'.h].baseband /= NoConnector
        /\ \E fld \in ReinitFields : rsp'[fld] /= radios[lastOp'.h].feat[fld])
       => LET n == Len(calls')
              a == calls'[n].args
          IN  /\ n >= 1
              /\ Cardinality({k \in 1..n : calls'[k].fn = "mir_sdr_Reinit"}) = 1
              /\ calls'[n].fn = "mir_sdr_Reinit"
              /\ a[1] = Ptr(rsp'.InitialGR)
              /\ a[2] = rsp'.FS
              /\ a[3] = rsp'.InitialRF
              /\ a[4] = rsp'.BW
              /\ a[5] = rsp'.IFreq
              /\ a[6] = rsp'.LOmode
              /\ a[7] = (IF rsp'.LNA THEN 1 ELSE 0)
              /\ a[8] = Ptr(0)
              /\ a[10] = Ptr(0)
              /\ a[11] /= {}]_vars

\* C21 witness: a SetUp that changed the bandwidth alone, on a receiver
\* whose registers the driver had written, reinitialised with the
\* unchanged RF and sample rate as well and with the system-gain register
\* cleared.
C21_Witness ==
    /\ lastOp.op = "SetUp"
    /\ optsIn = <<Bandwidth(BW200)>>
    /\ Len(calls) = 1
    /\ calls[1].fn = "mir_sdr_Reinit"
    /\ calls[1].args[3] = 102000
    /\ calls[1].args[4] = BW200
    /\ calls[1].args[8] = Ptr(0)

\* C22: reading the message of an error made from a status code that is
\* not one of the eleven known ones gives a message of its own, different
\* from the eleven descriptions; the description table is never indexed
\* past its end and the program is never aborted.
C22_UnknownStatusHasOwnError ==
    /\ msg /= IndexOutOfRange
    /\ (lastOp.op = "Error" /\ lastOp.f \notin 0..10)
          => /\ msg /= ""
             /\ \A k \in 1..Len(errDesc) : msg /= errDesc[k]

\* the driver calls that carry an RF frequency, and the frequency in Hz a
\* call carries (mir_sdr_SetRf takes Hz, the other two MHz)
RfCalls == {"streamInit", "mir_sdr_Reinit", "mir_sdr_SetRf"}
SentHz(c) == IF c.fn = "mir_sdr_SetRf" THEN c.args[1] ELSE Hz(c.args[3])

\* C23: after a construction, a Tune or a SetUp on the installed receiver
\* that sent an RF frequency to the driver with success (by streamInit,
\* mir_sdr_Reinit or mir_sdr_SetRf), the receiver's band field is band()
\* of the frequency sent last.
C23_BandFollowsHardwareRF ==
    LET ks == {k \in 1..Len(calls) : calls[k].fn \in RfCalls}
        last == CHOOSE k \in ks : \A j \in ks : j <= k
    IN  (/\ lastOp.op \in {"RSP", "Tune", "SetUp"}
         /\ rx /= NoRadio
         /\ lastOp.op /= "RSP" => lastOp.h = rx
         /\ ks /= {}
         /\ calls[last].res = mir_sdr_Success)
        => radios[rx].band = band(SentHz(calls[last]))

\* the fields whose change makes SetUp call the driver
LoudFields == ReinitFields \cup {"DCmode", "LOppm"}

\* C24: a SetUp on a receiver that holds a connector which changes only
\* fields SetUp compares with nothing (the IQ-imbalance and DC-offset
\* flags, the tracking time under an unchanged DC mode, the decimation,
\* the AGC, the debug flag) makes no driver call and returns no error,
\* and the receiver's features take the new values all the same.
C24_QuietFieldsNoCall ==
    [][(/\ ApiStep("SetUp")
        /\ radios[lastOp'.h].baseband /= NoConnector
        /\ rsp' /= radios[lastOp'.h].feat
        /\ \A fld \in LoudFields : rsp'[fld] = radios[lastOp'.h].feat[fld])
       => /\ calls' = <<>>
          /\ ret' = Ret(NoRadio, nil)
          /\ radios'[lastOp'.h].feat = rsp'
          /\ radios'[lastOp'.h].feat = configure(rsp, optsIn')]_vars

\* C24 witness: a SetUp that turned the decimation on has made no driver
\* call, returned no error and left the receiver with the decimation on.
C24_Witness ==
    /\ lastOp.op = "SetUp"
    /\ optsIn = <<Decimate(TRUE, 4)>>
    /\ calls = <<>>
    /\ ret.err = nil
    /\ radios[lastOp.h].feat.Decimate
    /\ radios[lastOp.h].feat.Factor = 4

====
